---------------------------- MODULE Spec2Model ----------------------------
(***************************************************************************)
(* The Groups panel of src/components/Groups.tsx as a state machine.       *)
(*                                                                         *)
(* The state is the component's React state (isModalOpen, groupName,       *)
(* errorMessage, searchQuery, players, selectedPlayers, loading,           *)
(* userGroups), the backend tables the component reads and writes (groups  *)
(* and group_players; players and users are read only), and the async      *)
(* calls in flight (fetchUserGroups, fetchPlayers, handleCreateGroup),     *)
(* each with the values its closure captured and the await it is parked    *)
(* at.  One action is one event handler run, or the code that runs between *)
(* two awaits of an async function: the backend evaluates the request and  *)
(* the continuation runs in the same step.                                 *)
(*                                                                         *)
(* Strings the code converts or matches (names, the search query) are      *)
(* sequences of one-character strings, so that toLowerCase, trim and the   *)
(* ilike match are computed character by character.                        *)
(***************************************************************************)
EXTENDS Naturals, Sequences, FiniteSets

\* ------------------------------------------------------------------ bounds

\* The most async calls the user starts in one run: a fetchPlayers by opening
\* the modal or by typing in the search input, a create by a click on Create
\* Group that passes the two checks.
MaxUserCalls == 2

\* ----------------------------------------------------------------- strings

\* String.prototype.toLowerCase on one character of the model's alphabet.
LowerChar(c) ==
    CASE c = "A" -> "a"
      [] c = "B" -> "b"
      [] OTHER -> c

toLowerCase(s) == [i \in 1..Len(s) |-> LowerChar(s[i])]

RECURSIVE trimStart(_)
trimStart(s) ==
    IF s # <<>> /\ Head(s) = " " THEN trimStart(Tail(s)) ELSE s

RECURSIVE trimEnd(_)
trimEnd(s) ==
    IF s # <<>> /\ s[Len(s)] = " " THEN trimEnd(SubSeq(s, 1, Len(s) - 1)) ELSE s

\* String.prototype.trim
trim(s) == trimEnd(trimStart(s))

\* name ILIKE '%query%' for a query without the wildcards % and _ :
\* query occurs in name as a contiguous substring, ignoring case.
ilike(name, query) ==
    \E k \in 0..(Len(name) - Len(query)) :
        toLowerCase(SubSeq(name, k + 1, k + Len(query))) = toLowerCase(query)

\* Array.prototype.map
Map(s, F(_)) == [i \in 1..Len(s) |-> F(s[i])]

\* ----------------------------------------------------------------- backend

\* The signed-in user's id (sessionData.session.user.id) and another user.
User == "u1"
OtherUser == "u9"
Null == "null"

\* The players table: the first player's id is the signed-in user's id.
PlayersTable ==
    << [id |-> "u1", user_id |-> "u1", name |-> <<"A", "l">>],
       [id |-> "p2", user_id |-> Null, name |-> <<"b", "o">>] >>

\* The users table's avatar_url column (Null: no row, or no avatar).
AvatarOf(uid) == IF uid = "u1" THEN "al.png" ELSE Null

\* What the user can type into the two inputs.
GroupNames == { <<>>, <<"A">>, <<" ", "a">> }
SearchQueries == { <<>>, <<"B">> }

\* The backend before the component mounts: group 1, which the user owns and
\* is a member of, and group 2 of another owner, which the user is a member of.
InitGroups ==
    << [id |-> 1, name |-> <<"a">>, owner_id |-> User],
       [id |-> 2, name |-> <<"B">>, owner_id |-> OtherUser] >>
InitGroupPlayers ==
    << [group_id |-> 1, player_id |-> "u1"],
       [group_id |-> 1, player_id |-> "p2"],
       [group_id |-> 2, player_id |-> "u1"] >>

PlayerById(pid) ==
    CHOOSE p \in { PlayersTable[i] : i \in DOMAIN PlayersTable } : p.id = pid

\* One group row with its embedded relation
\*   group_players ( player_id, players ( id, name ) )
\* (created_at is selected too; the component only displays it.)
GroupSelect(g, GP) ==
    [id |-> g.id, name |-> g.name, owner_id |-> g.owner_id,
     group_players |->
        Map(SelectSeq(GP, LAMBDA r : r.group_id = g.id),
            LAMBDA r : [player_id |-> r.player_id,
                        players |-> [id |-> PlayerById(r.player_id).id,
                                     name |-> PlayerById(r.player_id).name]])]

\* from('groups').select(...).eq('owner_id', userId)
OwnerQuery(G, GP, userId) ==
    Map(SelectSeq(G, LAMBDA g : g.owner_id = userId),
        LAMBDA g : GroupSelect(g, GP))

\* from('group_players').select('group_id, groups (...)').eq('player_id', userId)
MemberQuery(G, GP, userId) ==
    Map(SelectSeq(GP, LAMBDA r : r.player_id = userId),
        LAMBDA r : [group_id |-> r.group_id,
                    groups |-> GroupSelect(G[r.group_id], GP)])

\* A query's answer { data, error }: ok is "error is null"; data is null
\* (here: unused) when it is not.
Answer(ok, data) == [ok |-> ok, data |-> IF ok THEN data ELSE <<>>]

\* from('players').select('*') with the optional .ilike('name', `%${query}%`)
PlayersQuery(query) ==
    IF query # <<>>
    THEN SelectSeq(PlayersTable, LAMBDA p : ilike(p.name, query))
    ELSE PlayersTable

\* ------------------------------------------------------------------- state

VARIABLES
    groups,           \* backend table groups: rows [id, name, owner_id], id = position
    group_players,    \* backend join table: rows [group_id, player_id]
    isModalOpen, groupName, errorMessage, searchQuery,
    players, selectedPlayers, loading, userGroups,
    fg,               \* fetchUserGroups calls in flight, oldest first
    fp,               \* fetchPlayers calls in flight, oldest first
    hc,               \* handleCreateGroup calls in flight, oldest first
    refreshed,        \* history: ids of the groups whose create ran to its end
    started           \* history: the number of async calls the user has started

backend == <<groups, group_players>>
form == <<isModalOpen, groupName, searchQuery, selectedPlayers>>
vars == <<groups, group_players, isModalOpen, groupName, errorMessage,
          searchQuery, players, selectedPlayers, loading, userGroups,
          fg, fp, hc, refreshed, started>>

\* The user's next action may start one more async call.
RoomForCall == started < MaxUserCalls

\* sequence s without its i-th element
Drop(s, i) == SubSeq(s, 1, i - 1) \o SubSeq(s, i + 1, Len(s))

\* A fetchUserGroups call parked at its first await (getSession).
NewFetchUserGroups == [pc |-> "session", ownerGroups |-> Answer(FALSE, <<>>)]

\* Mount: the useState defaults, and the effect has called fetchUserGroups.
Init ==
    /\ groups = InitGroups
    /\ group_players = InitGroupPlayers
    /\ isModalOpen = FALSE
    /\ groupName = <<>>
    /\ errorMessage = ""
    /\ searchQuery = <<>>
    /\ players = <<>>
    /\ selectedPlayers = <<>>
    /\ loading = FALSE
    /\ userGroups = <<>>
    /\ fg = << NewFetchUserGroups >>
    /\ fp = <<>>
    /\ hc = <<>>
    /\ refreshed = {}
    /\ started = 0

\* --------------------------------------------------------- fetchUserGroups

\* const memberGroupList = memberGroups ? memberGroups.map(item => item.groups) : []
memberGroupList(memberGroups) ==
    IF memberGroups.ok THEN Map(memberGroups.data, LAMBDA item : item.groups)
    ELSE <<>>

\* const allGroups = ownerGroups ? [...ownerGroups, ...memberGroupList] : memberGroupList
allGroups(ownerGroups, memberGroups) ==
    IF ownerGroups.ok THEN ownerGroups.data \o memberGroupList(memberGroups)
    ELSE memberGroupList(memberGroups)

\* DedupStep without the find: every group is pushed.
DedupStep_NoFind(acc, group) == Append(acc, group)

\* the reducer: push group unless acc already holds its id
DedupStep(acc, group) ==
    IF ~ \E k \in 1..Len(acc) : acc[k].id = group.id
    THEN Append(acc, group)
    ELSE acc

RECURSIVE Reduce(_, _)
Reduce(acc, rest) ==
    IF rest = <<>> THEN acc
    ELSE Reduce(DedupStep(acc, Head(rest)), Tail(rest))

uniqueGroups(all) == Reduce(<<>>, all)

\* { ...group, players: group.group_players.map(gp => gp.players) }
groupsWithPlayers(unique) ==
    Map(unique,
        LAMBDA group :
            [id |-> group.id, name |-> group.name, owner_id |-> group.owner_id,
             group_players |-> group.group_players,
             players |-> Map(group.group_players, LAMBDA gp : gp.players)])

\* getSession answered: error or no session returns, a session issues the
\* owner query.
FgSessionReturn(i, session) ==
    /\ fg[i].pc = "session"
    /\ IF session = "ok"
       THEN /\ fg' = [fg EXCEPT ![i].pc = "owner"]
       ELSE /\ fg' = Drop(fg, i)
    /\ UNCHANGED <<backend, form, errorMessage, players, loading, userGroups,
                   fp, hc, refreshed, started>>

\* The owner query answered (an error is only logged); the member query is
\* issued.
FgOwnerReturn(i, ok) ==
    /\ fg[i].pc = "owner"
    /\ fg' = [fg EXCEPT ![i] =
                [pc |-> "member",
                 ownerGroups |-> Answer(ok, OwnerQuery(groups, group_players, User))]]
    /\ UNCHANGED <<backend, form, errorMessage, players, loading, userGroups,
                   fp, hc, refreshed, started>>

\* The member query answered: merge, deduplicate, setUserGroups.
FgMemberReturn(i, ok) ==
    /\ fg[i].pc = "member"
    /\ userGroups' =
          groupsWithPlayers(uniqueGroups(allGroups(
              fg[i].ownerGroups,
              Answer(ok, MemberQuery(groups, group_players, User)))))
    /\ fg' = Drop(fg, i)
    /\ UNCHANGED <<backend, form, errorMessage, players, loading, fp, hc,
                   refreshed, started>>

\* ------------------------------------------------------------ fetchPlayers

\* A fetchPlayers(query) call parked at "await queryBuilder".
NewFetchPlayers(query) == [pc |-> "query", query |-> query, data |-> <<>>]

\* One element of playersWithAvatars: a player with a user_id gets the avatar
\* of the users row (null when there is none), any other is returned as is.
WithAvatar(player) ==
    [id |-> player.id, user_id |-> player.user_id, name |-> player.name,
     avatar_url |-> IF player.user_id # Null /\ player.user_id # ""
                    THEN AvatarOf(player.user_id)
                    ELSE Null]

playersWithAvatars(data) == Map(data, LAMBDA player : WithAvatar(player))

\* Some element of data awaits the users lookup.
NeedsLookup(data) ==
    \E k \in 1..Len(data) : data[k].user_id # Null /\ data[k].user_id # ""

\* The players query answered.  An error is logged and a rejection caught:
\* both reach finally.  Data without any user_id needs no lookup, so
\* Promise.all settles at once and setPlayers runs; otherwise the call
\* waits for the lookups.
FpQueryReturn(i, outcome) ==
    /\ fp[i].pc = "query"
    /\ IF outcome = "ok"
       THEN LET data == PlayersQuery(fp[i].query) IN
            IF NeedsLookup(data)
            THEN /\ fp' = [fp EXCEPT ![i] = [pc |-> "avatars",
                                             query |-> fp[i].query,
                                             data |-> data]]
                 /\ UNCHANGED <<players, loading>>
            ELSE /\ players' = playersWithAvatars(data)
                 /\ loading' = FALSE
                 /\ fp' = Drop(fp, i)
       ELSE /\ loading' = FALSE
            /\ fp' = Drop(fp, i)
            /\ UNCHANGED players
    /\ UNCHANGED <<backend, form, errorMessage, userGroups, fg, hc, refreshed, started>>

\* The avatar lookups settled: setPlayers, or the catch block; then finally.
FpAvatarsReturn(i, outcome) ==
    /\ fp[i].pc = "avatars"
    /\ players' = IF outcome = "ok" THEN playersWithAvatars(fp[i].data)
                  ELSE players
    /\ loading' = FALSE
    /\ fp' = Drop(fp, i)
    /\ UNCHANGED <<backend, form, errorMessage, userGroups, fg, hc, refreshed, started>>

\* --------------------------------------------------------------- the modal

\* The Create Group button of the page: open the modal, fetchPlayers().
openModal ==
    /\ RoomForCall
    /\ isModalOpen' = TRUE
    /\ loading' = TRUE
    /\ fp' = Append(fp, NewFetchPlayers(<<>>))
    /\ started' = started + 1
    /\ UNCHANGED <<backend, groupName, errorMessage, searchQuery, players,
                   selectedPlayers, userGroups, fg, hc, refreshed>>

\* The four setters of closeModal.
ResetForm ==
    /\ isModalOpen' = FALSE
    /\ groupName' = <<>>
    /\ searchQuery' = <<>>
    /\ selectedPlayers' = <<>>

\* The modal's X and Cancel buttons.
closeModal ==
    /\ isModalOpen
    /\ ResetForm
    /\ UNCHANGED <<backend, errorMessage, players, loading, userGroups,
                   fg, fp, hc, refreshed, started>>

\* The group name input's onChange.
SetGroupName(value) ==
    /\ isModalOpen
    /\ value # groupName
    /\ groupName' = value
    /\ errorMessage' = IF errorMessage # "" THEN "" ELSE errorMessage
    /\ UNCHANGED <<backend, isModalOpen, searchQuery, players, selectedPlayers,
                   loading, userGroups, fg, fp, hc, refreshed, started>>

handleSearchChange(query) ==
    /\ isModalOpen
    /\ query # searchQuery
    /\ RoomForCall
    /\ searchQuery' = query
    /\ loading' = TRUE
    /\ fp' = Append(fp, NewFetchPlayers(query))
    /\ started' = started + 1
    /\ UNCHANGED <<backend, isModalOpen, groupName, errorMessage, players,
                   selectedPlayers, userGroups, fg, hc, refreshed>>

\* AddPlayer without the some() check.
AddPlayer_NoCheck(sel, player) == Append(sel, player)

\* The selection handleAddPlayer sets: player is appended unless its id is
\* selected already.
AddPlayer(sel, player) ==
    IF ~ \E k \in 1..Len(sel) : sel[k].id = player.id
    THEN Append(sel, player)
    ELSE sel

\* selectedPlayers.filter(p => p.id !== playerId)
RemovePlayer(sel, playerId) == SelectSeq(sel, LAMBDA p : p.id # playerId)

\* A click on a row of the players list, which is rendered when not loading.
handleAddPlayer(player) ==
    /\ isModalOpen /\ ~loading
    /\ selectedPlayers' = AddPlayer(selectedPlayers, player)
    /\ UNCHANGED <<backend, isModalOpen, groupName, errorMessage, searchQuery,
                   players, loading, userGroups, fg, fp, hc, refreshed, started>>

\* A click on Remove in the selected list, which is rendered when not loading.
handleRemovePlayer(playerId) ==
    /\ isModalOpen /\ ~loading
    /\ selectedPlayers' = RemovePlayer(selectedPlayers, playerId)
    /\ UNCHANGED <<backend, isModalOpen, groupName, errorMessage, searchQuery,
                   players, loading, userGroups, fg, fp, hc, refreshed, started>>

\* ------------------------------------------------------- handleCreateGroup

MsgNoName == "Please enter a group name."
MsgDuplicate == "You are already in a group with that name. Please choose a different name."
MsgSessionError == "Error retrieving session. Please try again."
MsgNoSession == "No session found. Please sign in again."
MsgCreateFailed == "Failed to create group. Please try again."
MsgJoinFailed == "Group created, but failed to add some players."
MsgUnexpected == "An unexpected error occurred. Please try again."

\* IsDuplicateName without toLowerCase.
IsDuplicateName_CaseSensitive(name, ug) ==
    \E k \in 1..Len(ug) : trim(ug[k].name) = trim(name)

\* userGroups.some(g => g.name.trim().toLowerCase() === groupName.trim().toLowerCase())
IsDuplicateName(name, ug) ==
    \E k \in 1..Len(ug) :
        toLowerCase(trim(ug[k].name)) = toLowerCase(trim(name))

\* InsertRows as a replacement of the table's last row.
InsertRows_Overwrite(table, rows) == SubSeq(table, 1, Len(table) - 1) \o rows

\* from(table).insert(rows): the rows are appended to the table.
InsertRows(table, rows) == table \o rows

\* groupPlayersData for the first selected player only.
groupPlayersData_FirstOnly(groupId, sel) ==
    << [group_id |-> groupId, player_id |-> sel[1].id] >>

\* selectedPlayers.map(player => ({ group_id: groupId, player_id: player.id }))
groupPlayersData(groupId, sel) ==
    Map(sel, LAMBDA player : [group_id |-> groupId, player_id |-> player.id])

\* The click on the modal's Create Group button, up to the first await: the
\* two checks, then the call parks at getSession with the groupName and
\* selectedPlayers of this render.
handleCreateGroup ==
    /\ isModalOpen
    /\ IF groupName = <<>>
       THEN /\ errorMessage' = MsgNoName
            /\ UNCHANGED <<hc, started>>
       ELSE IF IsDuplicateName(groupName, userGroups)
       THEN /\ errorMessage' = MsgDuplicate
            /\ UNCHANGED <<hc, started>>
       ELSE /\ RoomForCall
            /\ errorMessage' = ""
            /\ hc' = Append(hc, [pc |-> "session", name |-> groupName,
                                 sel |-> selectedPlayers, groupId |-> 0])
            /\ started' = started + 1
    /\ UNCHANGED <<backend, form, players, loading, userGroups, fg, fp,
                   refreshed>>

\* getSession answered: an error or no session sets the message and returns,
\* a session issues the insert of the group row.
HcSessionReturn(i, session) ==
    /\ hc[i].pc = "session"
    /\ IF session = "ok"
       THEN /\ hc' = [hc EXCEPT ![i].pc = "insert"]
            /\ UNCHANGED errorMessage
       ELSE /\ errorMessage' = IF session = "error" THEN MsgSessionError
                               ELSE MsgNoSession
            /\ hc' = Drop(hc, i)
    /\ UNCHANGED <<backend, form, players, loading, userGroups, fg, fp,
                   refreshed, started>>

\* The end of a create that did not return early: setErrorMessage(""),
\* closeModal(), fetchUserGroups().
CreateEnd(i, groupId) ==
    /\ errorMessage' = ""
    /\ ResetForm
    /\ fg' = Append(fg, NewFetchUserGroups)
    /\ hc' = Drop(hc, i)
    /\ refreshed' = refreshed \cup {groupId}

\* The group insert answered.  An error or an exception sets the message and
\* returns with no row written.  Otherwise the row exists; with players
\* selected the join insert is issued, with none the create ends here.
HcInsertReturn(i, outcome) ==
    /\ hc[i].pc = "insert"
    /\ IF outcome = "ok"
       THEN LET groupId == Len(groups) + 1 IN
            /\ groups' = InsertRows(groups, << [id |-> groupId,
                                                 name |-> hc[i].name,
                                                 owner_id |-> User] >>)
            /\ IF Len(hc[i].sel) > 0
               THEN /\ hc' = [hc EXCEPT ![i].pc = "join", ![i].groupId = groupId]
                    /\ UNCHANGED <<form, errorMessage, fg, refreshed>>
               ELSE CreateEnd(i, groupId)
       ELSE /\ errorMessage' = IF outcome = "error" THEN MsgCreateFailed
                               ELSE MsgUnexpected
            /\ hc' = Drop(hc, i)
            /\ UNCHANGED <<groups, form, fg, refreshed>>
    /\ UNCHANGED <<group_players, players, loading, userGroups, fp, started>>

\* The join insert answered.  On success the rows exist.  On an error the
\* message MsgJoinFailed is set, and the code goes on to the end of the
\* create, which sets the message to "".  An exception is caught.
HcJoinReturn(i, outcome) ==
    /\ hc[i].pc = "join"
    /\ group_players' =
          IF outcome = "ok"
          THEN InsertRows(group_players,
                          groupPlayersData(hc[i].groupId, hc[i].sel))
          ELSE group_players
    /\ IF outcome = "throw"
       THEN /\ errorMessage' = MsgUnexpected
            /\ hc' = Drop(hc, i)
            /\ UNCHANGED <<form, fg, refreshed>>
       ELSE CreateEnd(i, hc[i].groupId)
    /\ UNCHANGED <<groups, players, loading, userGroups, fp, started>>

\* ---------------------------------------------------------- specification

Sessions == {"ok", "error", "none"}
Outcomes == {"ok", "error", "throw"}

\* One step of the component or of a call in flight, with the answers the
\* backend may give drawn from S (getSession), O (inserts, the players
\* fetch) and B (the two group queries: answered without an error or not).
Step(S, O, B) ==
    \/ \E i \in DOMAIN fg, s \in S : FgSessionReturn(i, s)
    \/ \E i \in DOMAIN fg, ok \in B : FgOwnerReturn(i, ok)
    \/ \E i \in DOMAIN fg, ok \in B : FgMemberReturn(i, ok)
    \/ \E i \in DOMAIN fp, o \in O : FpQueryReturn(i, o)
    \/ \E i \in DOMAIN fp, o \in O \ {"error"} : FpAvatarsReturn(i, o)
    \/ openModal
    \/ closeModal
    \/ \E v \in GroupNames : SetGroupName(v)
    \/ \E q \in SearchQueries : handleSearchChange(q)
    \/ \E k \in DOMAIN players : handleAddPlayer(players[k])
    \/ \E k \in DOMAIN selectedPlayers : handleRemovePlayer(selectedPlayers[k].id)
    \/ handleCreateGroup
    \/ \E i \in DOMAIN hc, s \in S : HcSessionReturn(i, s)
    \/ \E i \in DOMAIN hc, o \in O : HcInsertReturn(i, o)
    \/ \E i \in DOMAIN hc, o \in O : HcJoinReturn(i, o)

Next == Step(Sessions, Outcomes, BOOLEAN)

Spec == Init /\ [][Next]_vars

\* The behaviours in which the backend answers every request without an error.
NextOk == Step({"ok"}, {"ok"}, {TRUE})

SpecOk == Init /\ [][NextOk]_vars

\* ------------------------------------------------------------------ claims

IdsOf(s) == { s[k].id : k \in DOMAIN s }
NoDuplicateIds(s) == \A a, b \in DOMAIN s : a # b => s[a].id # s[b].id
IsPrefix(s, t) == Len(s) <= Len(t) /\ SubSeq(t, 1, Len(s)) = s

\* The user owns group g or a join row makes the user a member of it.
BelongsTo(g) ==
    \/ g.owner_id = User
    \/ \E k \in DOMAIN group_players :
          group_players[k].group_id = g.id /\ group_players[k].player_id = User

\* C1: the backend never holds two groups the user belongs to (as owner or
\* as member) whose names are equal ignoring case.
C1_NoTwoGroupsWithOneName ==
    \A a, b \in DOMAIN groups :
        (a # b /\ BelongsTo(groups[a]) /\ BelongsTo(groups[b]))
            => toLowerCase(groups[a].name) # toLowerCase(groups[b].name)

\* C2: every step leaves the rows the backend holds as they are (the tables
\* only grow at their ends); the groups table grows only by the one row of a
\* handleCreateGroup's group insert, the join table only by the rows of a
\* handleCreateGroup's join insert, all of them rows of that call's group.
\* (The players and users tables are not written at all: no action has them
\* as a variable.)
C2_OnlyReadsAndAppends ==
    [][ /\ IsPrefix(groups, groups')
        /\ IsPrefix(group_players, group_players')
        /\ groups' # groups =>
              /\ Len(groups') = Len(groups) + 1
              /\ \E i \in DOMAIN hc : HcInsertReturn(i, "ok")
        /\ group_players' # group_players =>
              \E i \in DOMAIN hc :
                  /\ HcJoinReturn(i, "ok")
                  /\ \A k \in (Len(group_players) + 1)..Len(group_players') :
                        group_players'[k].group_id = hc[i].groupId
      ]_vars

\* A create has written its group row and its join rows.
C2_Witness ==
    /\ Len(groups) > Len(InitGroups)
    /\ Len(group_players) > Len(InitGroupPlayers)

\* ug is the merge of the two answers: one entry per distinct id of a row of
\* either answer (a failed query has no rows), no other entry, and each
\* entry's players are the players of the join rows of a row with its id.
MergeOf(ug, own, mem) ==
    LET rows == { own.data[k] : k \in DOMAIN own.data }
                \cup { mem.data[k].groups : k \in DOMAIN mem.data }
    IN  /\ IdsOf(ug) = { r.id : r \in rows }
        /\ NoDuplicateIds(ug)
        /\ \A k \in DOMAIN ug :
              \E r \in rows :
                  /\ r.id = ug[k].id
                  /\ r.name = ug[k].name
                  /\ Len(ug[k].players) = Len(r.group_players)
                  /\ \A j \in DOMAIN r.group_players :
                        /\ ug[k].players[j] = r.group_players[j].players
                        /\ ug[k].players[j].id = r.group_players[j].player_id

\* C3: when fetchUserGroups completes, whatever the two queries answered
\* (rows, no rows, an error), userGroups holds exactly one entry per distinct
\* group id of the two answers, and each entry's players are those of the
\* group's join rows.
C3_MergedAndDeduplicated ==
    [][ \A i \in DOMAIN fg, ok \in BOOLEAN :
            FgMemberReturn(i, ok) =>
                MergeOf(userGroups', fg[i].ownerGroups,
                        Answer(ok, MemberQuery(groups, group_players, User)))
      ]_vars

\* A fetch has completed with group 1 in both answers and group 2 in the
\* member answer only: one entry each, group 1 with its two players.
C3_Witness ==
    /\ fg = <<>>
    /\ Len(userGroups) = 2
    /\ userGroups[1].id = 1 /\ Len(userGroups[1].players) = 2
    /\ userGroups[2].id = 2

\* C4: the join insert is issued only by a call whose group insert has
\* answered without an error (the call's group row exists and has its name);
\* it is issued only with players selected, and with none the create ends at
\* the group insert; it writes exactly one row per player selected when
\* Create Group was clicked, in their order, each with the id of the call's
\* group; so every join row references a group that exists.
C4_TwoStepInsert ==
    [][ /\ \A k \in DOMAIN hc' :
              hc'[k].pc = "join" =>
                  /\ hc'[k].sel # <<>>
                  /\ hc'[k].groupId \in DOMAIN groups'
                  /\ groups'[hc'[k].groupId].id = hc'[k].groupId
                  /\ groups'[hc'[k].groupId].name = hc'[k].name
        /\ \A k \in DOMAIN group_players' :
              group_players'[k].group_id \in IdsOf(groups')
        /\ Len(hc') = Len(hc) + 1 =>
              /\ hc'[Len(hc')].sel = selectedPlayers
              /\ hc'[Len(hc')].name = groupName
        /\ \A i \in DOMAIN hc :
              /\ HcSessionReturn(i, "ok") => hc'[i].sel = hc[i].sel
              /\ (HcInsertReturn(i, "ok") /\ hc[i].sel # <<>>) =>
                    hc'[i].sel = hc[i].sel /\ hc'[i].pc = "join"
              /\ (HcInsertReturn(i, "ok") /\ hc[i].sel = <<>>) =>
                    group_players' = group_players /\ hc' = Drop(hc, i)
              /\ HcJoinReturn(i, "ok") =>
                    /\ Len(group_players') = Len(group_players) + Len(hc[i].sel)
                    /\ IsPrefix(group_players, group_players')
                    /\ \A j \in DOMAIN hc[i].sel :
                          group_players'[Len(group_players) + j] =
                              [group_id |-> hc[i].groupId,
                               player_id |-> hc[i].sel[j].id]
        /\ group_players' # group_players =>
              \E i \in DOMAIN hc : hc[i].pc = "join" /\ HcJoinReturn(i, "ok")
      ]_vars

\* A create with two players selected has written its two join rows.
C4_Witness ==
    \E a, b \in DOMAIN group_players :
        /\ a # b
        /\ group_players[a].group_id = group_players[b].group_id
        /\ group_players[a].group_id > Len(InitGroups)
        /\ group_players[a].player_id # group_players[b].player_id

\* new is old without the elements of id playerId, the others in their order.
RemovedOnly(old, new, playerId) ==
    LET keep == { k \in DOMAIN old : old[k].id # playerId }
    IN  /\ Len(new) = Cardinality(keep)
        /\ \A j \in DOMAIN new :
              new[j] = old[CHOOSE k \in keep :
                               Cardinality({ m \in keep : m <= k }) = j]

C6_PlayersAnswerTheQuery ==
    (isModalOpen /\ fp = <<>>) =>
        players = playersWithAvatars(PlayersQuery(searchQuery))

\* C7: when the join insert answers with an error, the create leaves
\* MsgJoinFailed in errorMessage, shown in the open modal.
C7_JoinFailureIsShown ==
    [][ \A i \in DOMAIN hc :
            HcJoinReturn(i, "error") =>
                errorMessage' = MsgJoinFailed /\ isModalOpen'
      ]_vars

\* What a rejected create does: a message, and nothing else.
Rejected ==
    /\ errorMessage' # ""
    /\ Len(hc') <= Len(hc)
    /\ UNCHANGED <<groups, group_players, isModalOpen, groupName, searchQuery,
                   selectedPlayers, userGroups, players, loading, fg, fp>>

\* C8: a click on Create Group with an empty name, or with a name equal
\* ignoring case and surrounding whitespace to a name in userGroups, and a
\* create whose getSession answers an error or no session, or whose group
\* insert answers an error, set a non-empty errorMessage and change nothing
\* else: no row is written, the modal is as open as it was, the form and
\* userGroups are unchanged, and the call is over.
C8_RejectionOnlySetsMessage ==
    [][ /\ ( /\ handleCreateGroup
             /\ \/ groupName = <<>>
                \/ \E k \in DOMAIN userGroups :
                      toLowerCase(trim(userGroups[k].name))
                          = toLowerCase(trim(groupName)) )
           => (Rejected /\ isModalOpen' /\ hc' = hc)
        /\ \A i \in DOMAIN hc :
              /\ HcSessionReturn(i, "error") => (Rejected /\ hc' = Drop(hc, i))
              /\ HcSessionReturn(i, "none") => (Rejected /\ hc' = Drop(hc, i))
              /\ HcInsertReturn(i, "error") => (Rejected /\ hc' = Drop(hc, i))
      ]_vars

\* " a" was rejected against the group "a" of userGroups: the message is
\* shown in the open modal, the name is still in the input.
C8_Witness ==
    /\ isModalOpen
    /\ errorMessage = MsgDuplicate
    /\ groupName = <<" ", "a">>
    /\ selectedPlayers # <<>>

\* C9: the step that ends a create leaves the form cleared (modal closed,
\* groupName, searchQuery, selectedPlayers and errorMessage empty), and with
\* no fetchUserGroups call outstanding userGroups holds every group whose
\* create has ended.
C9_FormClearedAndListRefreshed ==
    [][ /\ refreshed' # refreshed =>
              /\ ~isModalOpen'
              /\ groupName' = <<>> /\ searchQuery' = <<>>
              /\ selectedPlayers' = <<>> /\ errorMessage' = ""
        /\ fg' = <<>> => refreshed' \subseteq IdsOf(userGroups')
      ]_vars

\* C10: loading is true exactly while a fetchPlayers call is outstanding.
C10_LoadingTracksFetches == loading <=> (fp # <<>>)

=============================================================================
